---- MODULE Spec2Model ----
(***************************************************************************)
(* Domain Research Dashboard: the Header's domain normalizer               *)
(* (sanitizeDomain, validateDomain), the App shell, and the link           *)
(* generation of ToolCard and Dashboard.                                   *)
(*                                                                         *)
(* A JavaScript string is modelled as a sequence of one-character strings, *)
(* so that length, indexing, splitting and case conversion are computed.   *)
(***************************************************************************)
EXTENDS Integers, Sequences, FiniteSets, TLC

VARIABLES
    shape,          \* the pieces the raw text was typed from: scheme, www, host, suffix
    raw,            \* the text handed to sanitizeDomain
    sanitized,      \* sanitizeDomain's result, the text handed to validateDomain
    threw,          \* whether an exception left sanitizeDomain
    verdict,        \* validateDomain's result
    again,          \* sanitizeDomain applied to its own result
    phase           \* position in the normalizer pipeline

VARIABLES
    gen             \* one link generation: the tool, the domain, the card's and the batch's outcome

VARIABLES
    boot            \* one start of the App: the stored items, the state and the render they lead to

\* Header: inputValue, error.  App: researchedDomain, activeTab, route, favorites.
\* Dashboard: isMultiOpen, selectedTools.  cards[id] is the ToolCard of a tool.
\* lastEvent is the handler that ran last and what the browser did with the
\* event; batch is what the last Open Selected left behind.
VARIABLES inputValue, error, researchedDomain, activeTab, route, favorites,
          isMultiOpen, selectedTools, cards, lastEvent, batch

normVars == <<shape, raw, sanitized, threw, verdict, again, phase>>
uiVars == <<inputValue, error, researchedDomain, activeTab, route, favorites,
            isMultiOpen, selectedTools, cards, lastEvent, batch>>
vars == <<normVars, gen, boot, uiVars>>

(***************************************************************************)
(* Characters and strings                                                  *)
(***************************************************************************)
LowerSeq == <<"a","b","c","d","e","f","g","h","i","j","k","l","m",
              "n","o","p","q","r","s","t","u","v","w","x","y","z">>
UpperSeq == <<"A","B","C","D","E","F","G","H","I","J","K","L","M",
              "N","O","P","Q","R","S","T","U","V","W","X","Y","Z">>
Lower == {LowerSeq[i] : i \in 1..26}
Upper == {UpperSeq[i] : i \in 1..26}
Digit == {"0","1","2","3","4","5","6","7","8","9"}
Alpha == Lower \cup Upper
AlphaNum == Alpha \cup Digit
\* The white space String.prototype.trim removes, within the modelled alphabet.
WhiteSpace == {" "}

Range(s) == {s[i] : i \in 1..Len(s)}
Rep(c, n) == [i \in 1..n |-> c]
Min(S) == CHOOSE x \in S : \A y \in S : x <= y
Max(S) == CHOOSE x \in S : \A y \in S : x >= y

\* s.substring(from - 1, to) of JavaScript, 1-based and inclusive here.
Slice(s, from, to) == [i \in 1..(IF to >= from THEN to - from + 1 ELSE 0) |-> s[from + i - 1]]
DropFirst(s, n) == Slice(s, n + 1, Len(s))

\* s.startsWith(p), s.endsWith(p), s.includes(p), s.indexOf(p) (0 when absent).
StartsWith(s, p) == Len(p) <= Len(s) /\ \A i \in 1..Len(p) : s[i] = p[i]
EndsWith(s, p) == Len(p) <= Len(s) /\ \A i \in 1..Len(p) : s[Len(s) - Len(p) + i] = p[i]
OccursAt(s, p, k) == k + Len(p) - 1 <= Len(s) /\ \A i \in 1..Len(p) : s[k + i - 1] = p[i]
Occurrences(s, p) == {k \in 1..(Len(s) - Len(p) + 1) : OccursAt(s, p, k)}
Includes(s, p) == Occurrences(s, p) # {}
IndexOf(s, p) == IF Includes(s, p) THEN Min(Occurrences(s, p)) ELSE 0

\* String.prototype.toLowerCase on the ASCII alphabet.
ToLowerChar(c) == IF c \in Upper THEN LowerSeq[CHOOSE i \in 1..26 : UpperSeq[i] = c] ELSE c
ToLowerCase(s) == [i \in 1..Len(s) |-> ToLowerChar(s[i])]

\* String.prototype.trim.
Trim(s) ==
    LET keep == {i \in 1..Len(s) : s[i] \notin WhiteSpace}
    IN IF keep = {} THEN <<>> ELSE Slice(s, Min(keep), Max(keep))

\* s.split(sep) for a one-character separator: always at least one part.
Split(s, sep) ==
    LET cuts == {i \in 1..Len(s) : s[i] = sep}
        n == Cardinality(cuts) + 1
        \* position of the k-th separator; 0 before the first, Len(s)+1 after the last
        cut(k) == IF k = 0 THEN 0
                  ELSE IF k = n THEN Len(s) + 1
                  ELSE CHOOSE i \in cuts : Cardinality({j \in cuts : j < i}) = k - 1
    IN [k \in 1..n |-> Slice(s, cut(k - 1) + 1, cut(k) - 1)]

\* parts.join(sep).
RECURSIVE Join(_, _)
Join(parts, sep) ==
    IF Len(parts) = 0 THEN <<>>
    ELSE IF Len(parts) = 1 THEN parts[1]
    ELSE parts[1] \o sep \o Join(Tail(parts), sep)

(***************************************************************************)
(* Header: validateDomain                                                  *)
(***************************************************************************)
MaxDomainLen == 253
MaxLabelLen == 63

\* A validation result: one of the fixed messages, the label message (which
\* quotes the offending label), or null.
Message(text) == [msg |-> text, label |-> <<>>]
null == Message("null")
MsgEmpty == Message("Please enter a domain name.")
MsgTooLong == Message("Domain is too long (maximum 253 characters).")
MsgInvalidChars == Message("Domain contains invalid characters. Use only letters, numbers, hyphens, and periods.")
MsgNoTld == Message("Invalid format. A domain must include a TLD (e.g., .com).")
MsgPeriods == Message("Invalid format. Found consecutive or trailing periods.")
MsgLabelTooLong(label) == [msg |-> "A part of the domain is too long (maximum 63 characters).", label |-> label]
MsgHyphen == Message("Domain parts cannot start or end with a hyphen.")
MsgNumericTld == Message("The Top-Level Domain (TLD) cannot be composed entirely of numbers.")
MsgFormat == Message("Invalid domain format. Please use a format like example.com.")

\* /[^a-zA-Z0-9.-]/.test(s)
HasInvalidChar(s) == \E i \in 1..Len(s) : s[i] \notin AlphaNum \cup {".", "-"}

\* /^[0-9]+$/.test(s)
AllDigits(s) == Len(s) >= 1 /\ \A i \in 1..Len(s) : s[i] \in Digit

\* [a-zA-Z0-9]([a-zA-Z0-9-]{0,61}[a-zA-Z0-9])?  matched against a whole label
RegexLabel(l) ==
    /\ Len(l) >= 1 /\ Len(l) <= 63
    /\ l[1] \in AlphaNum
    /\ l[Len(l)] \in AlphaNum
    /\ \A i \in 1..Len(l) : l[i] \in AlphaNum \cup {"-"}

\* [a-zA-Z][a-zA-Z0-9-]{1,}  matched against a whole final label
RegexTld(l) ==
    /\ Len(l) >= 2
    /\ l[1] \in Alpha
    /\ \A i \in 2..Len(l) : l[i] \in AlphaNum \cup {"-"}

\* /^([a-zA-Z0-9]([a-zA-Z0-9-]{0,61}[a-zA-Z0-9])?\.)+[a-zA-Z][a-zA-Z0-9-]{1,}$/
\* No class of the expression contains the period, so a match cuts the string
\* at its periods: one or more label groups, then the final label.
domainRegex(s) ==
    LET parts == Split(s, ".")
        n == Len(parts)
    IN /\ n >= 2
       /\ \A k \in 1..(n - 1) : RegexLabel(parts[k])
       /\ RegexTld(parts[n])

LabelTooLong(label) == Len(label) > MaxLabelLen
LabelHyphen(label) == StartsWith(label, <<"-">>) \/ EndsWith(label, <<"-">>)

\* Mutant: the length check is made over all labels before any hyphen check.
LabelLoopLengthsFirst(labels) ==
    LET long == {k \in 1..Len(labels) : LabelTooLong(labels[k])}
    IN IF long # {} THEN MsgLabelTooLong(labels[Min(long)])
       ELSE IF \E k \in 1..Len(labels) : LabelHyphen(labels[k]) THEN MsgHyphen
       ELSE null

\* Mutant: the hyphen check is missing from the loop.
LabelLoopLengthOnly(labels) ==
    LET long == {k \in 1..Len(labels) : LabelTooLong(labels[k])}
    IN IF long # {} THEN MsgLabelTooLong(labels[Min(long)]) ELSE null

\* for (const label of labels) { length check; hyphen check }: the first label
\* that fails either check decides, and within a label the length check is first.
LabelLoop(labels) ==
    LET bad == {k \in 1..Len(labels) : LabelTooLong(labels[k]) \/ LabelHyphen(labels[k])}
    IN IF bad = {} THEN null
       ELSE IF LabelTooLong(labels[Min(bad)]) THEN MsgLabelTooLong(labels[Min(bad)])
       ELSE MsgHyphen

validateDomain(domain) ==
    LET trimmedDomain == Trim(domain)
        labels == Split(trimmedDomain, ".")
        tld == labels[Len(labels)]
    IN IF trimmedDomain = <<>> THEN MsgEmpty
       ELSE IF Len(trimmedDomain) > MaxDomainLen THEN MsgTooLong
       ELSE IF HasInvalidChar(trimmedDomain) THEN MsgInvalidChars
       ELSE IF ~Includes(trimmedDomain, <<".">>) THEN MsgNoTld
       ELSE IF \E k \in 1..Len(labels) : Len(labels[k]) = 0 THEN MsgPeriods
       ELSE IF LabelLoop(labels) # null THEN LabelLoop(labels)
       ELSE IF AllDigits(tld) THEN MsgNumericTld
       ELSE IF ~domainRegex(trimmedDomain) THEN MsgFormat
       ELSE null

(***************************************************************************)
(* new URL(input): the URL parser of the platform, without a base URL.     *)
(* Modelled for ASCII input made of letters, digits and . - _ + = / ? # :  *)
(* and the space, with a scheme other than file. Outside the model: user   *)
(* info (@), IPv6 ([ ]), the backslash, percent-escapes, tab and newline,  *)
(* non-ASCII text and xn-- labels. The result is failure (the constructor  *)
(* throws a TypeError) or the hostname property of the parsed URL.         *)
(***************************************************************************)
HexSeq == <<"0","1","2","3","4","5","6","7","8","9","a","b","c","d","e","f">>
SchemeChars == AlphaNum \cup {"+", "-", "."}
SpecialSchemes ==
    { <<"f","t","p">>, <<"h","t","t","p">>, <<"h","t","t","p","s">>,
      <<"w","s">>, <<"w","s","s">> }
\* The code points a host may not hold, within the modelled alphabet.
ForbiddenHostChars == {" ", "#", "/", ":", "?"}
Failure == [ok |-> FALSE, hostname |-> <<>>]
Parsed(h) == [ok |-> TRUE, hostname |-> h]

\* Half of a 32-bit quantity: a number is kept as hi * Half + lo, and hi = Half
\* stands for every value of 2^32 and above.
Half == 256 * 256

DigitVal(c) == (CHOOSE i \in 1..16 : HexSeq[i] = c) - 1
RadixDigits(R) == {HexSeq[i] : i \in 1..R}

RECURSIVE NumFold(_, _, _, _)
NumFold(s, R, k, acc) ==
    IF k > Len(s) THEN acc
    ELSE LET lo2 == acc.lo * R + DigitVal(s[k])
             hi2 == acc.hi * R + (lo2 \div Half)
         IN NumFold(s, R, k + 1,
                    [hi |-> IF hi2 >= Half THEN Half ELSE hi2, lo |-> lo2 % Half])

\* The IPv4 number parser: 0x starts a hexadecimal number, a leading 0 an octal one.
ParseIPv4Number(s) ==
    LET hex == Len(s) >= 2 /\ s[1] = "0" /\ s[2] \in {"x", "X"}
        oct == ~hex /\ Len(s) >= 2 /\ s[1] = "0"
        R == IF hex THEN 16 ELSE IF oct THEN 8 ELSE 10
        body == ToLowerCase(IF hex THEN DropFirst(s, 2) ELSE IF oct THEN DropFirst(s, 1) ELSE s)
    IN IF Len(s) = 0 THEN [ok |-> FALSE, hi |-> 0, lo |-> 0]
       ELSE IF \E i \in 1..Len(body) : body[i] \notin RadixDigits(R)
            THEN [ok |-> FALSE, hi |-> 0, lo |-> 0]
       ELSE LET v == NumFold(body, R, 1, [hi |-> 0, lo |-> 0])
            IN [ok |-> TRUE, hi |-> v.hi, lo |-> v.lo]

\* The parts of a host for the number checks: a single trailing empty part is dropped.
HostParts(h) ==
    LET parts == Split(h, ".")
    IN IF Len(parts) > 1 /\ parts[Len(parts)] = <<>> THEN SubSeq(parts, 1, Len(parts) - 1)
       ELSE parts

\* The ends-in-a-number checker, on the parts of a host that is not empty.
EndsInNumber(h) ==
    LET isNumber(last) == AllDigits(last) \/ ParseIPv4Number(last).ok
        lastOf(parts) == isNumber(parts[Len(parts)])
    IN h # <<>> /\ lastOf(HostParts(h))

DecDigits(n) ==
    IF n < 10 THEN <<HexSeq[n + 1]>>
    ELSE IF n < 100 THEN <<HexSeq[(n \div 10) + 1], HexSeq[(n % 10) + 1]>>
    ELSE <<HexSeq[(n \div 100) + 1], HexSeq[((n \div 10) % 10) + 1], HexSeq[(n % 10) + 1]>>

\* The IPv4 parser and serializer: failure, or the address in dotted decimal.
\* nums are the parsed parts; the last one fills the bytes the others leave.
IPv4Of(nums) ==
    LET n == Len(nums)
        lastBytes == <<nums[n].hi \div 256, nums[n].hi % 256,
                       nums[n].lo \div 256, nums[n].lo % 256>>
        byte(i) == IF i <= n - 1 THEN nums[i].lo ELSE lastBytes[i]
    IN IF n > 4 THEN Failure
       ELSE IF \E k \in 1..n : ~nums[k].ok THEN Failure
       ELSE IF \E k \in 1..(n - 1) : nums[k].hi > 0 \/ nums[k].lo > 255 THEN Failure
       ELSE IF \E i \in 1..(n - 1) : lastBytes[i] > 0 THEN Failure
       ELSE IF nums[n].hi >= Half THEN Failure
       ELSE Parsed(Join([i \in 1..4 |-> DecDigits(byte(i))], <<".">>))

ParseIPv4(h) ==
    LET numbers(parts) == [k \in 1..Len(parts) |-> ParseIPv4Number(parts[k])]
    IN IPv4Of(numbers(HostParts(h)))

\* The host parser. An opaque host (of a non-special scheme) keeps its case.
ParseHost(h, isOpaque) ==
    IF isOpaque
    THEN IF Range(h) \cap ForbiddenHostChars # {} THEN Failure ELSE Parsed(h)
    ELSE LET asciiDomain == ToLowerCase(h)
         IN IF asciiDomain = <<>> THEN Failure
            ELSE IF Range(asciiDomain) \cap ForbiddenHostChars # {} THEN Failure
            ELSE IF EndsInNumber(asciiDomain) THEN ParseIPv4(asciiDomain)
            ELSE Parsed(asciiDomain)

\* The port state: digits only, at most 65535.
PortOk(p) ==
    /\ \A i \in 1..Len(p) : p[i] \in Digit
    /\ LET v == NumFold(p, 10, 1, [hi |-> 0, lo |-> 0]) IN v.hi = 0

\* The authority state and the host state: the authority ends at the first
\* of / ? # and its first colon starts the port.
ParseAuthority(rest, special) ==
    LET ends == {i \in 1..Len(rest) : rest[i] \in {"/", "?", "#"}}
        authority == IF ends = {} THEN rest ELSE Slice(rest, 1, Min(ends) - 1)
        colon == IndexOf(authority, <<":">>)
        host == IF colon = 0 THEN authority ELSE Slice(authority, 1, colon - 1)
        port == IF colon = 0 THEN <<>> ELSE DropFirst(authority, colon)
        withPort(parsed) == IF parsed.ok /\ PortOk(port) THEN parsed ELSE Failure
    IN IF colon # 0 /\ host = <<>> THEN Failure
       ELSE IF special /\ host = <<>> THEN Failure
       ELSE withPort(ParseHost(host, ~special))

\* Leading slashes of the text after a special scheme are skipped.
SkipSlashes(s) ==
    LET other == {i \in 1..Len(s) : s[i] # "/"}
    IN IF other = {} THEN <<>> ELSE DropFirst(s, Min(other) - 1)

URLParse(input) ==
    LET s == Trim(input)
        \* the first character that cannot continue a scheme
        stop == {i \in 1..Len(s) : s[i] \notin SchemeChars}
        k == IF stop = {} THEN 0 ELSE Min(stop)
        scheme == ToLowerCase(Slice(s, 1, k - 1))
        rest == DropFirst(s, k)
    IN IF Len(s) = 0 \/ s[1] \notin Alpha THEN Failure
       ELSE IF k = 0 \/ s[k] # ":" THEN Failure
       ELSE IF scheme \notin SpecialSchemes /\ ~StartsWith(rest, <<"/", "/">>) THEN Parsed(<<>>)
       ELSE ParseAuthority(IF scheme \in SpecialSchemes THEN SkipSlashes(rest)
                           ELSE DropFirst(rest, 2),
                           scheme \in SpecialSchemes)

(***************************************************************************)
(* Header: sanitizeDomain                                                  *)
(***************************************************************************)
S_https == <<"h","t","t","p","s",":","/","/">>
S_http == <<"h","t","t","p",":","/","/">>
S_www == <<"w","w","w",".">>

\* The outcome of evaluating a function body: a returned value or an exception.
Return(v) == [threw |-> FALSE, value |-> v]
Throw == [threw |-> TRUE, value |-> <<>>]

\* s.replace(/^www\./, '')
StripWww(s) == IF StartsWith(s, S_www) THEN DropFirst(s, 4) ELSE s

\* s.replace(/^https?:\/\//, '')
StripScheme(s) ==
    IF StartsWith(s, S_https) THEN DropFirst(s, 8)
    ELSE IF StartsWith(s, S_http) THEN DropFirst(s, 7)
    ELSE s

\* s.replace(/[^a-z0-9.\-]/g, '')
Cleanup(s) == SelectSeq(s, LAMBDA c : c \in Lower \cup Digit \cup {".", "-"})

\* domain.includes('://') ? domain : `https://${domain}`
URLInput(domain) == IF Includes(domain, <<":","/","/">>) THEN domain ELSE S_https \o domain

\* The try block: the URL constructor throws on a parse failure.
sanitizeTry(domain) ==
    LET hostOf(url) == IF url.ok THEN Return(StripWww(url.hostname)) ELSE Throw
    IN hostOf(URLParse(URLInput(domain)))

\* The catch block.
sanitizeCatch(domain) ==
    LET lowered == ToLowerCase(Trim(domain))
        noScheme == StripScheme(lowered)
        noWww == StripWww(noScheme)
        pathIndex == IndexOf(noWww, <<"/">>)
        host == IF pathIndex > 0 THEN Slice(noWww, 1, pathIndex - 1) ELSE noWww
    IN Return(Cleanup(host))

\* Mutant: the try block without its catch.
sanitizeOutcomeNoCatch(domain) ==
    IF domain = <<>> THEN Return(<<>>) ELSE sanitizeTry(domain)

sanitizeOutcome(domain) ==
    LET caught(tried) == IF tried.threw THEN sanitizeCatch(domain) ELSE tried
    IN IF domain = <<>> THEN Return(<<>>) ELSE caught(sanitizeTry(domain))

sanitizeDomain(domain) == sanitizeOutcome(domain).value

(***************************************************************************)
(* Link generation: ToolCard's effect and Dashboard's handleOpenSelected   *)
(***************************************************************************)
TOKEN_DOMAIN == <<"{","{","D","O","M","A","I","N","}","}">>
TOKEN_DOMAIN_NAME == <<"{","{","D","O","M","A","I","N","_","N","A","M","E","}","}">>
HASH == <<"#">>

\* Mutant: every occurrence is replaced, as with a /g pattern.
RECURSIVE ReplaceAll(_, _, _)
ReplaceAll(s, pattern, replacement) ==
    LET k == IndexOf(s, pattern)
    IN IF k = 0 THEN s
       ELSE Slice(s, 1, k - 1) \o replacement
            \o ReplaceAll(DropFirst(s, k + Len(pattern) - 1), pattern, replacement)

\* s.replace(pattern, replacement) with a string pattern: the first occurrence
\* only. The replacement is a domain, which holds no $, so no replacement
\* pattern ($&, $1, ...) is expanded.
ReplaceFirst(s, pattern, replacement) ==
    LET k == IndexOf(s, pattern)
    IN IF k = 0 THEN s
       ELSE Slice(s, 1, k - 1) \o replacement \o DropFirst(s, k + Len(pattern) - 1)

\* fullDomain.split('.')[0] || fullDomain
getDomainPart(fullDomain, type) ==
    IF type = "domain_name"
    THEN IF Split(fullDomain, ".")[1] # <<>> THEN Split(fullDomain, ".")[1] ELSE fullDomain
    ELSE fullDomain

\* ToolCard: the url the effect builds.
cardUrl(tool, domain) ==
    LET domainPart == getDomainPart(domain, tool.urlType)
    IN ReplaceFirst(ReplaceFirst(tool.urlTemplate, TOKEN_DOMAIN, domain),
                    TOKEN_DOMAIN_NAME, domainPart)

\* ToolCard's effect: new URL(url) throws on a string that is no absolute URL,
\* and the catch block sets the error outcome.  logged is what the effect wrote
\* to the console: the catch block has no console call.
cardEffect(tool, domain) ==
    LET checked(url) == IF URLParse(url).ok THEN [finalUrl |-> url, status |-> "idle", logged |-> <<>>]
                        ELSE [finalUrl |-> HASH, status |-> "error", logged |-> <<>>]
    IN checked(cardUrl(tool, domain))

\* Dashboard: the url handleOpenSelected builds for one tool.
batchUrl(tool, domain) ==
    LET first == Split(domain, ".")[1]
        domainPart == IF tool.urlType = "domain_name"
                      THEN (IF first # <<>> THEN first ELSE domain)
                      ELSE domain
    IN ReplaceFirst(ReplaceFirst(tool.urlTemplate, TOKEN_DOMAIN, domain),
                    TOKEN_DOMAIN_NAME, domainPart)

\* The scheme of the page the dashboard is served from.
PageScheme == <<"h","t","t","p","s">>

\* window.open(url, ...) parses url against the page's URL and throws a
\* SyntaxError when that fails. With a base only an authority can fail: a text
\* without a scheme, or with the page's own scheme and no //, is a relative
\* reference.
ParsesWithBase(input) ==
    LET s == Trim(input)
        stop == {i \in 1..Len(s) : s[i] \notin SchemeChars}
        k == IF stop = {} THEN 0 ELSE Min(stop)
        hasScheme == Len(s) > 0 /\ s[1] \in Alpha /\ k # 0 /\ s[k] = ":"
        scheme == ToLowerCase(Slice(s, 1, k - 1))
        rest == IF hasScheme THEN DropFirst(s, k) ELSE s
        special == ~hasScheme \/ scheme \in SpecialSchemes
        sameScheme == ~hasScheme \/ scheme = PageScheme
        \* a relative reference, or a scheme followed by a path without authority
        noAuthority == ~StartsWith(rest, <<"/", "/">>) /\ (sameScheme \/ ~special)
    IN noAuthority
       \/ ParseAuthority(IF special THEN SkipSlashes(rest) ELSE DropFirst(rest, 2), special).ok

windowOpenThrows(url) == ~ParsesWithBase(url)

\* What one run of the batch loop leaves behind: the tool ids the loop visited,
\* the arguments of its window.open calls, the urls window.open accepted, and
\* the tools console.error reported.
NoBatch == [visited |-> <<>>, calls |-> <<>>, opened |-> <<>>, logged |-> <<>>]

\* TOOLS.find(t => t.id === toolId): the position in the catalog, 0 when absent.
FindTool(catalog, toolId) ==
    LET hits == {i \in 1..Len(catalog) : catalog[i].id = toolId}
    IN IF hits = {} THEN 0 ELSE Min(hits)

\* Mutant: the requests are issued newest first.
openOneNewestFirst(catalog, toolId, domain, acc) ==
    LET at == FindTool(catalog, toolId)
        seen == [acc EXCEPT !.visited = Append(@, toolId)]
        open(url) ==
            IF windowOpenThrows(url)
            THEN [seen EXCEPT !.calls = <<url>> \o @, !.logged = Append(@, toolId)]
            ELSE [seen EXCEPT !.calls = <<url>> \o @, !.opened = <<url>> \o @]
    IN IF at = 0 THEN seen ELSE open(batchUrl(catalog[at], domain))

\* One iteration of selectedTools.forEach: the body's try/catch is inside it.
openOne(catalog, toolId, domain, acc) ==
    LET at == FindTool(catalog, toolId)
        seen == [acc EXCEPT !.visited = Append(@, toolId)]
        open(url) ==
            IF windowOpenThrows(url)
            THEN [seen EXCEPT !.calls = Append(@, url), !.logged = Append(@, toolId)]
            ELSE [seen EXCEPT !.calls = Append(@, url), !.opened = Append(@, url)]
    IN IF at = 0 THEN seen ELSE open(batchUrl(catalog[at], domain))

\* Mutant: the try/catch is around the whole loop, so the first exception ends it.
RECURSIVE openAllAbort(_, _, _, _)
openAllAbort(catalog, selected, domain, acc) ==
    IF selected = <<>> THEN acc
    ELSE LET next == openOne(catalog, Head(selected), domain, acc)
         IN IF Len(next.logged) > Len(acc.logged) THEN next
            ELSE openAllAbort(catalog, Tail(selected), domain, next)

\* selectedTools.forEach(toolId => { ... })
RECURSIVE openAll(_, _, _, _)
openAll(catalog, selected, domain, acc) ==
    IF selected = <<>> THEN acc
    ELSE openAll(catalog, Tail(selected), domain, openOne(catalog, Head(selected), domain, acc))

\* A card before its effect has run: useState('') and useState('idle').
NoCard == [finalUrl |-> <<>>, status |-> "idle", logged |-> <<>>]
\* No tool is being generated.
GenIdle == [phase |-> "off", tool |-> <<>>, domain |-> <<>>, card |-> NoCard, batch |-> NoBatch]

(***************************************************************************)
(* The catalog and the components' state                                   *)
(***************************************************************************)
\* The catalog (constants.ts) is not among the sources.  Three tools stand for
\* it: a well-formed template, a template whose host is only valid for a
\* numeric first label, and a template without a scheme.
TOOLS ==
    << [id |-> "whois", urlTemplate |-> <<"h","t","t","p","s",":","/","/","w",".","i","s","/","{","{","D","O","M","A","I","N","}","}">>,
        urlType |-> "domain", category |-> "WHOIS"],
       [id |-> "name", urlTemplate |-> <<"h","t","t","p","s",":","/","/","{","{","D","O","M","A","I","N","_","N","A","M","E","}","}",".","1","/">>,
        urlType |-> "domain_name", category |-> "DNS History"],
       [id |-> "bare", urlTemplate |-> <<"w",".","i","s","/","{","{","D","O","M","A","I","N","_","N","A","M","E","}","}">>,
        urlType |-> "undefined", category |-> "DNS History"] >>
ToolIds == {TOOLS[i].id : i \in 1..Len(TOOLS)}
ToolOf(id) == TOOLS[FindTool(TOOLS, id)]
Tabs == {"All", "Favorites"} \cup {TOOLS[i].category : i \in 1..Len(TOOLS)}

\* setError('') and the text the Header shows.
NoError == Message("")

\* A ToolCard that is not rendered.
Unmounted == [mounted |-> FALSE, status |-> "idle", finalUrl |-> <<>>, timers |-> 0]
NoEvent == [name |-> "none", tool |-> "", outcome |-> ""]
Event(name, tool, outcome) == [name |-> name, tool |-> tool, outcome |-> outcome]

UiIdle ==
    /\ inputValue = <<>>
    /\ error = NoError
    /\ researchedDomain = <<>>
    /\ activeTab = "All"
    /\ route = "/"
    /\ favorites = <<>>
    /\ isMultiOpen = FALSE
    /\ selectedTools = <<>>
    /\ cards = [id \in ToolIds |-> Unmounted]
    /\ lastEvent = NoEvent
    /\ batch = NoBatch

(***************************************************************************)
(* App: the persisted theme and favorites                                  *)
(***************************************************************************)
\* JavaScript values as JSON.parse produces them and localStorage.getItem
\* returns them (null for an absent item, a string for a present one).
JNull == [type |-> "null"]
JBool(b) == [type |-> "boolean", v |-> b]
JNum(n) == [type |-> "number", v |-> n]
JStr(text) == [type |-> "string", v |-> text]
JArr(items) == [type |-> "array", v |-> items]
JObj(members) == [type |-> "object", v |-> members]

\* ToBoolean of a value: null, '', 0 and false are falsy.
Truthy(value) ==
    CASE value.type = "null" -> FALSE
      [] value.type = "string" -> value.v # <<>>
      [] value.type = "number" -> value.v # 0
      [] value.type = "boolean" -> value.v
      [] OTHER -> TRUE

L_null == <<"n","u","l","l">>
L_true == <<"t","r","u","e">>
L_false == <<"f","a","l","s","e">>
DigitSeq == <<"0","1","2","3","4","5","6","7","8","9">>

RECURSIVE DecimalValue(_)
DecimalValue(digits) ==
    IF digits = <<>> THEN 0
    ELSE 10 * DecimalValue(SubSeq(digits, 1, Len(digits) - 1))
         + (CHOOSE d \in 0..9 : DigitSeq[d + 1] = digits[Len(digits)])

RECURSIVE DecimalText(_)
DecimalText(n) ==
    IF n < 10 THEN <<DigitSeq[n + 1]>>
    ELSE DecimalText(n \div 10) \o <<DigitSeq[(n % 10) + 1]>>

\* JSON.parse on the grammar the stored texts are drawn from: null, true,
\* false, unsigned integers, strings without escapes, arrays and objects,
\* no white space.  A parse step yields the value and the next position.
JsonAt(value, next) == [ok |-> TRUE, value |-> value, next |-> next]
NoParse == [ok |-> FALSE, value |-> JNull, next |-> 0]

RECURSIVE DigitsEnd(_, _)
DigitsEnd(s, i) == IF i <= Len(s) /\ s[i] \in Digit THEN DigitsEnd(s, i + 1) ELSE i

ParseNumber(s, i) ==
    LET number(stop) == JsonAt(JNum(DecimalValue(Slice(s, i, stop - 1))), stop)
    IN number(IF s[i] = "0" THEN i + 1 ELSE DigitsEnd(s, i))

ParseString(s, i) ==
    LET quotes == {j \in (i + 1)..Len(s) : s[j] = "\""}
        close(j) ==
            IF \E k \in (i + 1)..(j - 1) : s[k] = "\\" THEN NoParse
            ELSE JsonAt(JStr(Slice(s, i + 1, j - 1)), j + 1)
    IN IF quotes = {} THEN NoParse ELSE close(Min(quotes))

RECURSIVE ParseValue(_, _), ParseElements(_, _, _), ParseMembers(_, _, _)
ParseValue(s, i) ==
    IF i > Len(s) THEN NoParse
    ELSE IF OccursAt(s, L_null, i) THEN JsonAt(JNull, i + 4)
    ELSE IF OccursAt(s, L_true, i) THEN JsonAt(JBool(TRUE), i + 4)
    ELSE IF OccursAt(s, L_false, i) THEN JsonAt(JBool(FALSE), i + 5)
    ELSE IF s[i] = "\"" THEN ParseString(s, i)
    ELSE IF s[i] \in Digit THEN ParseNumber(s, i)
    ELSE IF s[i] = "[" THEN
        IF i < Len(s) /\ s[i + 1] = "]" THEN JsonAt(JArr(<<>>), i + 2)
        ELSE ParseElements(s, i + 1, <<>>)
    ELSE IF s[i] = "{" THEN
        IF i < Len(s) /\ s[i + 1] = "}" THEN JsonAt(JObj(<<>>), i + 2)
        ELSE ParseMembers(s, i + 1, <<>>)
    ELSE NoParse

ParseElements(s, i, acc) ==
    LET after(e) ==
            IF ~e.ok \/ e.next > Len(s) THEN NoParse
            ELSE IF s[e.next] = "," THEN ParseElements(s, e.next + 1, Append(acc, e.value))
            ELSE IF s[e.next] = "]" THEN JsonAt(JArr(Append(acc, e.value)), e.next + 1)
            ELSE NoParse
    IN after(ParseValue(s, i))

ParseMembers(s, i, acc) ==
    LET member(key) ==
            LET after(e) ==
                    IF ~e.ok \/ e.next > Len(s) THEN NoParse
                    ELSE IF s[e.next] = "," THEN
                        ParseMembers(s, e.next + 1, Append(acc, <<key.value.v, e.value>>))
                    ELSE IF s[e.next] = "}" THEN
                        JsonAt(JObj(Append(acc, <<key.value.v, e.value>>)), e.next + 1)
                    ELSE NoParse
            IN IF ~key.ok \/ key.next > Len(s) THEN NoParse
               ELSE IF s[key.next] # ":" THEN NoParse
               ELSE after(ParseValue(s, key.next + 1))
    IN IF i > Len(s) THEN NoParse
       ELSE IF s[i] # "\"" THEN NoParse
       ELSE member(ParseString(s, i))

\* JSON.parse(text): the value, or a SyntaxError.
JSONParse(text) ==
    LET whole(r) ==
            IF r.ok /\ r.next = Len(text) + 1 THEN [threw |-> FALSE, value |-> r.value]
            ELSE [threw |-> TRUE, value |-> JNull]
    IN whole(ParseValue(text, 1))

\* JSON.stringify(value).
RECURSIVE JSONStringify(_)
JSONStringify(value) ==
    CASE value.type = "null" -> L_null
      [] value.type = "boolean" -> IF value.v THEN L_true ELSE L_false
      [] value.type = "number" -> DecimalText(value.v)
      [] value.type = "string" -> <<"\"">> \o value.v \o <<"\"">>
      [] value.type = "array" ->
            <<"[">> \o Join([k \in 1..Len(value.v) |-> JSONStringify(value.v[k])], <<",">>) \o <<"]">>
      [] value.type = "object" ->
            <<"{">> \o Join([k \in 1..Len(value.v) |->
                              <<"\"">> \o value.v[k][1] \o <<"\"", ":">> \o JSONStringify(value.v[k][2])],
                            <<",">>) \o <<"}">>

T_light == <<"l","i","g","h","t">>
T_dark == <<"d","a","r","k">>

\* useState's initializer for the theme.
themeInitial(storedTheme, prefersDark) ==
    IF Truthy(storedTheme) THEN storedTheme.v
    ELSE IF prefersDark THEN T_dark ELSE T_light

\* toggleTheme's updater.
toggleTheme(prevTheme) == IF prevTheme = T_light THEN T_dark ELSE T_light

\* The theme effect: the 'dark' class of the document element.
darkClass(theme) == theme = T_dark

\* The favorites load effect: the new favorites state and what it logged.
\* Without a stored item the state keeps useState's [].
loadFavorites(storedFavorites) ==
    LET set(parsed) ==
            IF parsed.threw
            THEN [favorites |-> JArr(<<>>), logged |-> <<"Failed to parse favorites from localStorage">>]
            ELSE [favorites |-> parsed.value, logged |-> <<>>]
    IN IF Truthy(storedFavorites) THEN set(JSONParse(storedFavorites.v))
       ELSE [favorites |-> JArr(<<>>), logged |-> <<>>]

\* The text of a tool id.
IdText(id) ==
    CASE id = "whois" -> <<"w","h","o","i","s">>
      [] id = "name" -> <<"n","a","m","e">>
      [] id = "bare" -> <<"b","a","r","e">>

\* favorites.includes(tool.id) on whatever value the favorites state holds:
\* Array.prototype.includes, String.prototype.includes, or a TypeError where
\* the value has no such method.
jsIncludes(favs, id) ==
    CASE favs.type = "array" -> IF \E k \in 1..Len(favs.v) : favs.v[k].type = "string" /\ favs.v[k].v = IdText(id)
                                THEN "true" ELSE "false"
      [] favs.type = "string" -> IF Includes(favs.v, IdText(id)) THEN "true" ELSE "false"
      [] OTHER -> "TypeError"

\* One render of Dashboard with the favorites prop: nothing of favorites is
\* read without a domain; the Favorites tab filters the catalog with
\* favorites.includes, and every card rendered reads favorites.includes for
\* its star.  An exception leaves the ErrorBoundary with hasError.
dashboardRender(domain, tab, favs) ==
    LET flag == [id \in ToolIds |-> jsIncludes(favs, id)]
        read == IF tab = "Favorites" THEN ToolIds
                ELSE {id \in ToolIds : tab = "All" \/ ToolOf(id).category = tab}
        filtered == {id \in read : tab = "Favorites" => flag[id] = "true"}
    IN IF domain = <<>> THEN [hasError |-> FALSE, shown |-> {}, starred |-> {}]
       ELSE IF \E id \in read : flag[id] = "TypeError" THEN [hasError |-> TRUE, shown |-> {}, starred |-> {}]
       ELSE [hasError |-> FALSE, shown |-> filtered, starred |-> {id \in filtered : flag[id] = "true"}]

NoView == [hasError |-> FALSE, shown |-> {}, starred |-> {}]
\* The App is not being started.
BootIdle ==
    [phase |-> "off", storedFavorites |-> JNull, storedTheme |-> JNull, prefersDark |-> FALSE,
     favorites |-> JArr(<<>>), theme |-> T_light, dark |-> FALSE, logged |-> <<>>,
     storage |-> [domainToolFavorites |-> JNull, theme |-> JNull], view |-> NoView]

(***************************************************************************)
(* validateDomain applied to bounded strings                               *)
(***************************************************************************)
MaxLabels == 3

ValLabels ==
    { <<>>, <<"a">>, <<"c","o">>, <<"1">>, <<"1","a">>, <<"-","a">>, <<"a","-">>,
      <<"a","_">>, Rep("a", 63), Rep("a", 64) }

RECURSIVE JoinsOf(_)
JoinsOf(n) ==
    IF n = 1 THEN ValLabels
    ELSE {l \o <<".">> \o d : l \in ValLabels, d \in JoinsOf(n - 1)}

ValInputs ==
    UNION {JoinsOf(n) : n \in 1..MaxLabels}
    \cup { <<" ">> \o Rep("a", 63) \o <<".","c","o"," ">>,
           <<" "," ">>,
           <<"A",".","C","o">>,
           <<"a"," ","b",".","c","o">>,
           <<"a",".","c">>,
           <<"a",".","c","-","1">>,
           Join(<<Rep("a", 63), Rep("a", 63), Rep("a", 63), Rep("a", 61)>>, <<".">>),
           Join(<<Rep("a", 63), Rep("a", 63), Rep("a", 63), Rep("a", 62)>>, <<".">>) }

NoShape == [scheme |-> <<>>, www |-> <<>>, host |-> <<>>, suffix |-> <<>>]

InitValidate ==
    /\ shape = NoShape
    /\ raw = <<>>
    /\ sanitized \in ValInputs
    /\ threw = FALSE
    /\ verdict = null
    /\ again = <<>>
    /\ phase = "sanitized"
    /\ gen = GenIdle
    /\ boot = BootIdle
    /\ UiIdle

\* const errorMessage = validateDomain(sanitizedDomain)
Validate ==
    /\ phase = "sanitized"
    /\ verdict' = validateDomain(sanitized)
    /\ phase' = "validated"
    /\ UNCHANGED <<shape, raw, sanitized, threw, again, gen, boot, uiVars>>

NextValidate == Validate

SpecValidate == InitValidate /\ [][NextValidate]_vars

(***************************************************************************)
(* sanitizeDomain, then validateDomain, applied to bounded raw input       *)
(***************************************************************************)
MaxWww == 2

RECURSIVE Times(_, _)
Times(s, n) == IF n = 0 THEN <<>> ELSE s \o Times(s, n - 1)

Schemes == { <<>>, S_https, <<"H","T","T","P",":","/","/">>, <<"g","i","t",":","/","/">> }
WwwPrefixes == {Times(S_www, n) : n \in 0..MaxWww} \cup { <<"W","W","W",".">> }
Hosts ==
    { <<"a",".","c","o">>,
      <<"A","b",".","C","o">>,
      <<"a">>,
      <<"a",".","1">>,
      <<"1",".","2">>,
      <<"1",".","2",".","3",".","4">>,
      <<"1",".","2",".","3",".","2","5","6">>,
      <<"a","-","b",".","c","o">>,
      <<"-","a",".","c","o">>,
      <<"a",".","c","o","-">>,
      <<"a","_","b",".","c","o">>,
      <<"a"," ","b",".","c","o">>,
      <<"a",".",".","c","o">>,
      <<"a",".","c","o",".">>,
      <<"a",".","c">>,
      <<"a",".","1","a">>,
      <<"a",".","0","x","1">>,
      <<"b",".","1","2">>,
      <<>>,
      Rep("a", 63) \o <<".","c","o">>,
      Rep("a", 64) \o <<".","c","o">>,
      <<"a",".">> \o Rep("c", 64),
      Join(<<Rep("a", 63), Rep("a", 63), Rep("a", 63), Rep("a", 61)>>, <<".">>),
      Join(<<Rep("a", 63), Rep("a", 63), Rep("a", 63), Rep("a", 62)>>, <<".">>) }
Suffixes == { <<>>, <<"/","p">>, <<"/","p","?","a","=","1">>, <<"?","a","=","1">>, <<":","8","0">>, <<":","8","o">> }

Shapes == [scheme : Schemes, www : WwwPrefixes, host : Hosts, suffix : Suffixes]
TextOf(sh) == sh.scheme \o sh.www \o sh.host \o sh.suffix

\* Text that is not of the scheme-www-host-suffix form.
FreeInputs ==
    { <<" ","a",".","c","o"," ">>, <<"w"," ","w","w",".","a",".","c","o">>, <<"a",":","b",":","/","/","c">>, <<":","/","/","a",".","c","o">>,
      <<"1",":","/","/","a",".","c","o">>, <<"h","t","t","p","s",":","a",".","c","o">>, <<"h","t","t","p",":","/","/","/","a",".","c","o">> }

InitSanitize ==
    /\ \/ shape \in Shapes /\ raw = TextOf(shape)
       \/ shape = NoShape /\ raw \in FreeInputs
    /\ sanitized = <<>>
    /\ threw = FALSE
    /\ verdict = null
    /\ again = <<>>
    /\ phase = "raw"
    /\ gen = GenIdle
    /\ boot = BootIdle
    /\ UiIdle

\* const sanitizedDomain = sanitizeDomain(inputValue)
Sanitize ==
    /\ phase = "raw"
    /\ LET record(outcome) == sanitized' = outcome.value /\ threw' = outcome.threw
       IN record(sanitizeOutcome(raw))
    /\ phase' = "sanitized"
    /\ UNCHANGED <<shape, raw, verdict, again, gen, boot, uiVars>>

\* sanitizeDomain applied to a text it has produced
Resanitize ==
    /\ phase = "validated"
    /\ again' = sanitizeDomain(sanitized)
    /\ phase' = "again"
    /\ UNCHANGED <<shape, raw, sanitized, threw, verdict, gen, boot, uiVars>>

NextSanitize == Sanitize \/ Validate \/ Resanitize

SpecSanitize == InitSanitize /\ [][NextSanitize]_vars

(***************************************************************************)
(* Link generation applied to bounded tools and domains                    *)
(***************************************************************************)
UrlTypes == {"domain", "domain_name", "undefined"}
GenTemplates ==
    { <<"h","t","t","p","s",":","/","/","w",".","i","s","/","{","{","D","O","M","A","I","N","}","}">>,
      <<"h","t","t","p","s",":","/","/","x",".","i","o","/","{","{","D","O","M","A","I","N","_","N","A","M","E","}","}">>,
      <<"h","t","t","p","s",":","/","/","x",".","i","o","/","{","{","D","O","M","A","I","N","}","}","/","{","{","D","O","M","A","I","N","_","N","A","M","E","}","}">>,
      <<"h","t","t","p","s",":","/","/","x",".","i","o","/","{","{","D","O","M","A","I","N","_","N","A","M","E","}","}","/","{","{","D","O","M","A","I","N","}","}">>,
      <<"h","t","t","p","s",":","/","/","x",".","i","o","/","{","{","D","O","M","A","I","N","}","}","?","q","=","{","{","D","O","M","A","I","N","}","}">>,
      <<"h","t","t","p","s",":","/","/","x",".","i","o","/","{","{","D","O","M","A","I","N","_","N","A","M","E","}","}","/","{","{","D","O","M","A","I","N","_","N","A","M","E","}","}">>,
      <<"h","t","t","p","s",":","/","/","x",".","i","o","/">>,
      <<"w",".","i","s","/","{","{","D","O","M","A","I","N","}","}">>,
      <<"h","t","t","p","s",":","/","/","{","{","D","O","M","A","I","N","_","N","A","M","E","}","}",".","1","/">>,
      <<"h","t","t","p","s",":","/","/","a"," ","b","/","{","{","D","O","M","A","I","N","}","}">>,
      <<"{","{","D","O","M","A","I","N","}","}">>,
      <<"h","t","t","p","s",":","/","/","x",".","i","o","/","{","D","O","M","A","I","N","}">> }
\* Domains that validateDomain accepts.
GenDomains ==
    { <<"a",".","c","o">>,
      <<"s","u","b",".","a",".","c","o">>,
      <<"1",".","c","o">>,
      <<"A","B",".","c","o">> }
GenTools == [id : {"tool"}, urlTemplate : GenTemplates, urlType : UrlTypes, category : {"WHOIS"}]

NormIdle ==
    /\ shape = NoShape
    /\ raw = <<>>
    /\ sanitized = <<>>
    /\ threw = FALSE
    /\ verdict = null
    /\ again = <<>>
    /\ phase = "off"

InitGenerate ==
    /\ NormIdle
    /\ boot = BootIdle
    /\ UiIdle
    /\ \E tool \in GenTools, domain \in GenDomains :
          gen = [phase |-> "args", tool |-> tool, domain |-> domain,
                 card |-> NoCard, batch |-> NoBatch]

\* The card of gen.tool runs its effect for gen.domain.
GenerateCard ==
    /\ gen.phase = "args"
    /\ gen' = [gen EXCEPT !.phase = "card", !.card = cardEffect(gen.tool, gen.domain)]
    /\ UNCHANGED <<normVars, boot, uiVars>>

\* Open Selected with gen.tool as the only selected tool.
GenerateBatch ==
    /\ gen.phase = "card"
    /\ gen' = [gen EXCEPT !.phase = "done",
                          !.batch = openAll(<<gen.tool>>, <<gen.tool.id>>, gen.domain, NoBatch)]
    /\ UNCHANGED <<normVars, boot, uiVars>>

NextGenerate == GenerateCard \/ GenerateBatch

SpecGenerate == InitGenerate /\ [][NextGenerate]_vars

(***************************************************************************)
(* Header, App, Dashboard and ToolCard as one state machine                *)
(***************************************************************************)
\* Loading timers that may be pending at one time, over all cards.
MaxTimers == 1

\* Texts the user leaves in the input field.
UIInputs ==
    { <<>>, <<"a",".","c","o">>, <<"h","t","t","p","s",":","/","/","w","w","w",".","1",".","c","o","/","p">>, <<"b","a","d">> }

\* The tools whose star is clicked.
Starred == {"name"}

IdsOf(tools) == [i \in 1..Len(tools) |-> tools[i].id]

\* Dashboard's filteredTools: the tools of a tab, in the catalog's order.
filteredTools(tab, favs) ==
    LET InTab(tool) == tool.category = tab
        IsFavorite(tool) == tool.id \in Range(favs)
    IN IF tab = "All" THEN TOOLS
       ELSE IF tab = "Favorites" THEN SelectSeq(TOOLS, IsFavorite)
       ELSE SelectSeq(TOOLS, InTab)

\* The card of tool id is on screen: the Dashboard route is shown, the
\* Dashboard does not return early, and the tool is in the active tab.
Visible(r, domain, tab, favs, id) ==
    /\ r = "/"
    /\ domain # <<>>
    /\ id \in Range(IdsOf(filteredTools(tab, favs)))

\* ToolCard's effect, run on mount and when the domain prop changes.
WithEffect(card, id, domain) ==
    LET set(e) == [card EXCEPT !.status = e.status, !.finalUrl = e.finalUrl]
    IN set(cardEffect(ToolOf(id), domain))

\* The cards after a render with route r, domain, tab and favorites.  A card stays
\* mounted while it is visible and the grid's key (the tab) is the same; a
\* new card starts from useState's initial values; the effect runs on mount
\* and when the domain changed; a card that is removed loses its state.
render(r, domain, tab, favs) ==
    [id \in ToolIds |->
        LET kept == cards[id].mounted /\ tab = activeTab
        IN IF ~Visible(r, domain, tab, favs, id) THEN Unmounted
           ELSE IF kept /\ domain = researchedDomain THEN cards[id]
           ELSE WithEffect(IF kept THEN cards[id] ELSE [Unmounted EXCEPT !.mounted = TRUE],
                           id, domain)]

DashboardShown == route = "/" /\ researchedDomain # <<>>

\* App.handleDomainSubmit
handleDomainSubmit(domain) ==
    /\ researchedDomain' = domain
    /\ activeTab' = "All"
    /\ route' = "/"
    /\ cards' = render("/", domain, "All", favorites)

\* Mutant: the Header forwards the sanitized text without looking at the verdict.
handleSearchClickUnchecked(value) ==
    [errorMessage |-> null, sanitizedDomain |-> sanitizeDomain(value)]

\* Header.handleSearchClick up to its early return.
handleSearchClick(value) ==
    LET checked(sanitizedDomain) ==
            [errorMessage |-> validateDomain(sanitizedDomain), sanitizedDomain |-> sanitizedDomain]
    IN checked(sanitizeDomain(value))

SearchClick ==
    LET submit(out) ==
            IF out.errorMessage # null
            THEN /\ error' = out.errorMessage
                 /\ lastEvent' = Event("handleSearchClick", "", "rejected")
                 /\ UNCHANGED <<researchedDomain, activeTab, route, cards>>
            ELSE /\ error' = NoError
                 /\ handleDomainSubmit(out.sanitizedDomain)
                 /\ lastEvent' = Event("handleSearchClick", "", "forwarded")
    IN /\ submit(handleSearchClick(inputValue))
       /\ batch' = NoBatch
       /\ UNCHANGED <<inputValue, isMultiOpen, selectedTools, favorites, normVars, gen, boot>>

InputChange(newValue) ==
    /\ newValue # inputValue
    /\ inputValue' = newValue
    /\ IF newValue = <<>>
       THEN /\ handleDomainSubmit(<<>>)
            /\ lastEvent' = Event("handleInputChange", "", "forwarded")
       ELSE /\ lastEvent' = Event("handleInputChange", "", "")
            /\ UNCHANGED <<researchedDomain, activeTab, route, cards>>
    /\ error' = IF error # NoError THEN NoError ELSE error
    /\ batch' = NoBatch
    /\ UNCHANGED <<isMultiOpen, selectedTools, favorites, normVars, gen, boot>>

\* The clear button is rendered while inputValue is not empty.
ClearInput ==
    /\ inputValue # <<>>
    /\ inputValue' = <<>>
    /\ error' = NoError
    /\ handleDomainSubmit(<<>>)
    /\ lastEvent' = Event("handleClearInput", "", "forwarded")
    /\ batch' = NoBatch
    /\ UNCHANGED <<isMultiOpen, selectedTools, favorites, normVars, gen, boot>>

\* App.handleToggleFavorite's updater.
handleToggleFavorite(prevFavorites, toolId) ==
    LET Other(id) == id # toolId
    IN IF toolId \in Range(prevFavorites)
       THEN SelectSeq(prevFavorites, Other)
       ELSE Append(prevFavorites, toolId)

\* The star of a card: handleFavoriteClick stops the click from reaching the
\* link, then the Dashboard renders with the new favorites.
FavoriteClick(id) ==
    LET rendered(favs) ==
            /\ favorites' = favs
            /\ cards' = render(route, researchedDomain, activeTab, favs)
    IN /\ DashboardShown
       /\ cards[id].mounted
       /\ rendered(handleToggleFavorite(favorites, id))
       /\ lastEvent' = Event("handleFavoriteClick", id, "prevented")
       /\ batch' = NoBatch
       /\ UNCHANGED <<inputValue, error, researchedDomain, activeTab, route, isMultiOpen,
                      selectedTools, normVars, gen, boot>>

\* Navbar: onTabChange is App's setActiveTab.
TabChange(tab) ==
    /\ DashboardShown
    /\ activeTab' = tab
    /\ cards' = render(route, researchedDomain, tab, favorites)
    /\ lastEvent' = Event("onTabChange", "", "")
    /\ batch' = NoBatch
    /\ UNCHANGED <<inputValue, error, researchedDomain, route, isMultiOpen, selectedTools,
                   favorites, normVars, gen, boot>>

\* Mutant: leaving multi-open mode keeps the selection.
handleToggleMultiOpenKeeping(prev, prevSelected) ==
    [isMultiOpen |-> ~prev, selectedTools |-> prevSelected]

\* Dashboard.handleToggleMultiOpen: the selection is cleared when the mode is left.
handleToggleMultiOpen(prev, prevSelected) ==
    [isMultiOpen |-> ~prev, selectedTools |-> IF prev THEN <<>> ELSE prevSelected]

\* The switch is rendered while the Dashboard shows a domain.
ToggleMultiOpen ==
    /\ DashboardShown
    /\ isMultiOpen' = handleToggleMultiOpen(isMultiOpen, selectedTools).isMultiOpen
    /\ selectedTools' = handleToggleMultiOpen(isMultiOpen, selectedTools).selectedTools
    /\ lastEvent' = Event("handleToggleMultiOpen", "", "")
    /\ batch' = NoBatch
    /\ UNCHANGED <<inputValue, error, researchedDomain, activeTab, route, cards, favorites,
                   normVars, gen, boot>>

\* Dashboard.handleSelectTool
handleSelectTool(prevSelected, toolId) ==
    LET Other(id) == id # toolId
    IN IF toolId \in Range(prevSelected)
       THEN SelectSeq(prevSelected, Other)
       ELSE Append(prevSelected, toolId)

\* Mutant: the click handler without its check of the error status.
handleCardClickUnguarded(card, multi) ==
    IF multi THEN "selected"
    ELSE IF card.finalUrl = <<>> \/ card.finalUrl = HASH THEN "prevented"
    ELSE "navigated"

\* ToolCard.handleCardClick: what a click on the card leads to.  "prevented"
\* is preventDefault with nothing else, "selected" is preventDefault and
\* onSelectTool, "navigated" is the link's default action and the loading state.
handleCardClick(card, multi) ==
    IF card.status = "error" THEN "prevented"
    ELSE IF multi THEN "selected"
    ELSE IF card.finalUrl = <<>> \/ card.finalUrl = HASH THEN "prevented"
    ELSE "navigated"

\* The loading timers that have not fired yet, over the cards ids.
RECURSIVE PendingTimers(_, _)
PendingTimers(cs, ids) ==
    IF ids = {} THEN 0
    ELSE LET id == CHOOSE x \in ids : TRUE
         IN cs[id].timers + PendingTimers(cs, ids \ {id})

CardClick(id) ==
    LET outcome == handleCardClick(cards[id], isMultiOpen)
    IN /\ DashboardShown
       /\ cards[id].mounted
       /\ outcome = "navigated" => PendingTimers(cards, ToolIds) < MaxTimers
       /\ selectedTools' = IF outcome = "selected"
                           THEN handleSelectTool(selectedTools, id) ELSE selectedTools
       /\ cards' = IF outcome = "navigated"
                   THEN [cards EXCEPT ![id].status = "loading", ![id].timers = @ + 1]
                   ELSE cards
       /\ lastEvent' = Event("handleCardClick", id, outcome)
       /\ batch' = NoBatch
       /\ UNCHANGED <<inputValue, error, researchedDomain, activeTab, route, isMultiOpen,
                      favorites, normVars, gen, boot>>

\* Mutant: the timer's callback leaves the status as it is.
TimerFireWithoutReset(id) ==
    /\ cards[id].mounted
    /\ cards[id].timers > 0
    /\ cards' = [cards EXCEPT ![id].timers = @ - 1]
    /\ lastEvent' = Event("setTimeout", id, "")
    /\ batch' = NoBatch
    /\ UNCHANGED <<inputValue, error, researchedDomain, activeTab, route, isMultiOpen,
                   selectedTools, favorites, normVars, gen, boot>>

\* setTimeout(() => setStatus('idle'), 1500) of a card that is still mounted.
TimerFire(id) ==
    /\ cards[id].mounted
    /\ cards[id].timers > 0
    /\ cards' = [cards EXCEPT ![id].status = "idle", ![id].timers = @ - 1]
    /\ lastEvent' = Event("setTimeout", id, "")
    /\ batch' = NoBatch
    /\ UNCHANGED <<inputValue, error, researchedDomain, activeTab, route, isMultiOpen,
                   selectedTools, favorites, normVars, gen, boot>>

\* The checkbox exists in multi-open mode and is disabled while status is 'error'.
CheckboxChange(id) ==
    /\ DashboardShown
    /\ cards[id].mounted
    /\ isMultiOpen
    /\ cards[id].status # "error"
    /\ selectedTools' = IF cards[id].status # "error"
                        THEN handleSelectTool(selectedTools, id) ELSE selectedTools
    /\ lastEvent' = Event("handleCheckboxChange", id, "selected")
    /\ batch' = NoBatch
    /\ UNCHANGED <<inputValue, error, researchedDomain, activeTab, route, isMultiOpen, cards,
                   favorites, normVars, gen, boot>>

areAllSelected(currentToolIds, selected) ==
    /\ Len(currentToolIds) > 0
    /\ \A i \in 1..Len(currentToolIds) : currentToolIds[i] \in Range(selected)

\* Mutant: the two lists are concatenated without the Set.
handleSelectAllConcat(prevSelected, currentToolIds) == prevSelected \o currentToolIds

\* Array.from(new Set([...prevSelected, ...currentToolIds]))
handleSelectAll(prevSelected, currentToolIds) ==
    LET New(id) == id \notin Range(prevSelected)
    IN prevSelected \o SelectSeq(currentToolIds, New)

\* Mutant: Deselect All empties the whole selection.
handleDeselectAllEverything(prevSelected, currentToolIds) == <<>>

\* prevSelected.filter(id => !currentToolIds.includes(id))
handleDeselectAll(prevSelected, currentToolIds) ==
    LET Kept(id) == id \notin Range(currentToolIds)
    IN SelectSeq(prevSelected, Kept)

\* The button is rendered in multi-open mode while the tab has tools.
ToggleSelectAll ==
    LET currentToolIds == IdsOf(filteredTools(activeTab, favorites))
    IN /\ DashboardShown
       /\ isMultiOpen
       /\ Len(currentToolIds) > 0
       /\ selectedTools' = IF areAllSelected(currentToolIds, selectedTools)
                           THEN handleDeselectAll(selectedTools, currentToolIds)
                           ELSE handleSelectAll(selectedTools, currentToolIds)
       /\ lastEvent' = Event("handleToggleSelectAll", "", "")
       /\ batch' = NoBatch
       /\ UNCHANGED <<inputValue, error, researchedDomain, activeTab, route, isMultiOpen, cards,
                      favorites, normVars, gen, boot>>

\* The button is rendered in multi-open mode while something is selected.
OpenSelected ==
    /\ DashboardShown
    /\ isMultiOpen
    /\ Len(selectedTools) > 0
    /\ batch' = openAll(TOOLS, selectedTools, researchedDomain, NoBatch)
    /\ lastEvent' = Event("handleOpenSelected", "", "")
    /\ UNCHANGED <<inputValue, error, researchedDomain, activeTab, route, isMultiOpen,
                   selectedTools, cards, favorites, normVars, gen, boot>>

\* The Header's link to /about: the Dashboard is unmounted and loses its state.
GoAbout ==
    /\ route = "/"
    /\ route' = "/about"
    /\ isMultiOpen' = FALSE
    /\ selectedTools' = <<>>
    /\ cards' = [id \in ToolIds |-> Unmounted]
    /\ lastEvent' = Event("Link", "", "/about")
    /\ batch' = NoBatch
    /\ UNCHANGED <<inputValue, error, researchedDomain, activeTab, favorites, normVars, gen, boot>>

\* About's link back to the Dashboard, which is mounted anew.
GoHome ==
    /\ route = "/about"
    /\ route' = "/"
    /\ cards' = render("/", researchedDomain, activeTab, favorites)
    /\ lastEvent' = Event("Link", "", "/")
    /\ batch' = NoBatch
    /\ UNCHANGED <<inputValue, error, researchedDomain, activeTab, isMultiOpen, selectedTools,
                   favorites, normVars, gen, boot>>

Init ==
    /\ NormIdle
    /\ gen = GenIdle
    /\ boot = BootIdle
    /\ UiIdle

Next ==
    \/ \E newValue \in UIInputs : InputChange(newValue)
    \/ SearchClick
    \/ ClearInput
    \/ \E tab \in Tabs : TabChange(tab)
    \/ ToggleMultiOpen
    \/ \E id \in ToolIds : CardClick(id)
    \/ \E id \in ToolIds : TimerFire(id)
    \/ \E id \in ToolIds : CheckboxChange(id)
    \/ \E id \in Starred : FavoriteClick(id)
    \/ ToggleSelectAll
    \/ OpenSelected
    \/ GoAbout
    \/ GoHome

Spec == Init /\ [][Next]_vars

\* The browser runs the callback of a timer that stays pending.
SpecLive == Spec /\ \A id \in ToolIds : WF_vars(TimerFire(id))

(***************************************************************************)
(* The App's first render on bounded stored state                          *)
(***************************************************************************)
\* What localStorage holds under 'domainToolFavorites' when the page loads:
\* nothing, the empty string, lists of ids, other JSON values, and texts
\* that are not JSON.
StoredFavorites ==
    {JNull, JStr(<<>>)} \cup
    {JStr(text) : text \in {
        <<"[","]">>,
        <<"[","\"","w","h","o","i","s","\"","]">>,
        <<"[","\"","b","a","r","e","\"",",","\"","w","h","o","i","s","\"","]">>,
        <<"[","\"","z","z","\"","]">>,
        <<"[","1","]">>,
        <<"{","}">>,
        <<"{","\"","a","\"",":","[","]","}">>,
        <<"5">>,
        <<"\"","w","h","o","i","s","\"">>,
        <<"n","u","l","l">>,
        <<"t","r","u","e">>,
        <<"[">>,
        <<"w","h","o","i","s">>,
        <<"[","\"","w","h","o","i","s","\"",",","]">> }}

\* What localStorage holds under 'theme'.
StoredThemes == {JNull, JStr(<<>>), JStr(T_light), JStr(T_dark), JStr(<<"b","l","u","e">>)}

BootDomains == {<<>>, <<"a",".","c","o">>}

InitStartup ==
    /\ NormIdle
    /\ gen = GenIdle
    /\ UiIdle
    /\ \E f \in StoredFavorites, th \in StoredThemes, dark \in BOOLEAN :
          boot = [BootIdle EXCEPT !.phase = "stored", !.storedFavorites = f, !.storedTheme = th,
                                  !.prefersDark = dark,
                                  !.storage = [domainToolFavorites |-> f, theme |-> th]]

\* The App mounts: the theme's initial state, then the effects of the first
\* render and of the render the loaded favorites cause.  The save effect
\* leaves the favorites' JSON text in the store, the theme effect the theme.
Mount ==
    LET loaded(l) ==
            [boot EXCEPT !.phase = "mounted",
                         !.favorites = l.favorites,
                         !.logged = l.logged,
                         !.storage.domainToolFavorites = JStr(JSONStringify(l.favorites))]
        themed(b, theme) ==
            [b EXCEPT !.theme = theme, !.dark = darkClass(theme), !.storage.theme = JStr(theme)]
    IN /\ boot.phase = "stored"
       /\ boot' = themed(loaded(loadFavorites(boot.storedFavorites)),
                         themeInitial(boot.storedTheme, boot.prefersDark))
       /\ UNCHANGED <<normVars, gen, uiVars>>

\* The Dashboard route renders for a domain and a tab.
RenderDashboard(domain, tab) ==
    /\ boot.phase = "mounted"
    /\ boot' = [boot EXCEPT !.phase = "rendered", !.view = dashboardRender(domain, tab, boot.favorites)]
    /\ UNCHANGED <<normVars, gen, uiVars>>

\* The theme button of the Header, once the page is rendered.
ToggleTheme ==
    LET themed(theme) ==
            [boot EXCEPT !.theme = theme, !.dark = darkClass(theme), !.storage.theme = JStr(theme)]
    IN /\ boot.phase = "rendered"
       /\ boot' = themed(toggleTheme(boot.theme))
       /\ UNCHANGED <<normVars, gen, uiVars>>

NextStartup ==
    \/ Mount
    \/ \E domain \in BootDomains, tab \in Tabs : RenderDashboard(domain, tab)
    \/ ToggleTheme

SpecStartup == InitStartup /\ [][NextStartup]_vars


(***************************************************************************)
(* Claims about the normalizer                                             *)
(***************************************************************************)
DomainChars == AlphaNum \cup {".", "-"}
FixedMessages ==
    {MsgEmpty, MsgTooLong, MsgInvalidChars, MsgNoTld, MsgPeriods, MsgHyphen,
     MsgNumericTld, MsgFormat}
LongLabelsOf(d) == {l \in Range(Split(Trim(d), ".")) : Len(l) > 63}
PassesRules1to5(d) ==
    LET t == Trim(d)
    IN /\ t # <<>>
       /\ Len(t) <= 253
       /\ Range(t) \subseteq DomainChars
       /\ "." \in Range(t)
       /\ \A l \in Range(Split(t, ".")) : l # <<>>

C2_NormalizedDomain ==
    (phase \in {"validated", "again"} /\ verdict = null) =>
        LET ls == Split(sanitized, ".")
            tld == ls[Len(ls)]
        IN /\ Range(sanitized) \subseteq DomainChars
           /\ "." \in Range(sanitized)
           /\ \A k \in 1..Len(ls) :
                /\ Len(ls[k]) >= 1
                /\ Len(ls[k]) <= 63
                /\ ls[k][1] # "-"
                /\ ls[k][Len(ls[k])] # "-"
           /\ Len(sanitized) <= 253
           /\ \E i \in 1..Len(tld) : tld[i] \notin Digit
           /\ tld[1] \in Alpha
           /\ Len(tld) >= 2

\* C2 witness: sanitizeDomain changed the typed text and validateDomain
\* accepted the result.
C2_Witness ==
    /\ phase = "validated"
    /\ verdict = null
    /\ shape.scheme # <<>>
    /\ shape.suffix # <<>>
    /\ sanitized # raw

\* C4 as stated: sanitizeDomain(sanitizeDomain(x)) = sanitizeDomain(x) for
\* every input x.
C4_Idempotent == phase = "again" => again = sanitized

\* A host in the sense of C5: a non-empty text of letters, digits, periods and
\* hyphens without an empty label, other than a dotted number.
HostLike(h) ==
    /\ h # <<>>
    /\ Range(h) \subseteq DomainChars
    /\ \A l \in Range(Split(h, ".")) : l # <<>>
    /\ \E l \in Range(Split(h, ".")) : ~AllDigits(l)

\* C5 as stated: for an input made of an optional http(s) scheme, an optional
\* www. prefix, a host and an optional path/query suffix, sanitizeDomain
\* returns exactly the host in lower case, on the URL path and on the
\* fallback path alike.
C5_BareHost ==
    ( /\ phase # "raw"
      /\ shape.scheme \in {<<>>, S_https, <<"H","T","T","P",":","/","/">>}
      /\ shape.www \in {<<>>, S_www, <<"W","W","W",".">>}
      /\ HostLike(shape.host)
      /\ shape.suffix \in {<<>>, <<"/","p">>, <<"/","p","?","a","=","1">>, <<"?","a","=","1">>} )
        => sanitized = ToLowerCase(shape.host)

\* C6: no exception leaves sanitizeDomain: it returns a string for every
\* input, the empty string for empty input and the fallback's result when the
\* URL constructor throws; validateDomain returns a message or null.
C6_NeverThrows ==
    /\ threw = FALSE
    /\ phase # "raw" =>
        /\ sanitized \in Seq(Range(sanitized))
        /\ raw = <<>> => sanitized = <<>>
        /\ (raw # <<>> /\ ~URLParse(URLInput(raw)).ok) =>
               sanitized = sanitizeCatch(raw).value
    /\ phase \in {"validated", "again"} =>
        \/ verdict = null
        \/ verdict \in FixedMessages
        \/ verdict \in {MsgLabelTooLong(l) : l \in LongLabelsOf(sanitized)}

\* C6 witness: the URL constructor threw on the typed text, sanitizeDomain
\* returned the fallback's result and validateDomain reported an error.
C6_Witness ==
    /\ phase = "validated"
    /\ raw # <<>>
    /\ ~URLParse(URLInput(raw)).ok
    /\ threw = FALSE
    /\ verdict # null

(***************************************************************************)
(* Claims about link generation                                            *)
(***************************************************************************)
\* The part of the domain C7 names: the text before the first period for a
\* domain_name tool, the whole domain when there is no period or nothing
\* before it, and the whole domain for any other tool.
ExpectedPart(domain, urlType) ==
    LET dot == IndexOf(domain, <<".">>)
    IN IF urlType = "domain_name" /\ dot > 1 THEN Slice(domain, 1, dot - 1) ELSE domain

\* The template with its first {{DOMAIN}} and its first {{DOMAIN_NAME}} replaced,
\* both located in the template itself.
ExpectedUrl(template, domain, part) ==
    LET i == IndexOf(template, TOKEN_DOMAIN)
        j == IndexOf(template, TOKEN_DOMAIN_NAME)
        n == Len(template)
        ie == i + Len(TOKEN_DOMAIN)
        je == j + Len(TOKEN_DOMAIN_NAME)
    IN IF i = 0 /\ j = 0 THEN template
       ELSE IF j = 0 THEN Slice(template, 1, i - 1) \o domain \o Slice(template, ie, n)
       ELSE IF i = 0 THEN Slice(template, 1, j - 1) \o part \o Slice(template, je, n)
       ELSE IF i < j
            THEN Slice(template, 1, i - 1) \o domain \o Slice(template, ie, j - 1)
                 \o part \o Slice(template, je, n)
       ELSE Slice(template, 1, j - 1) \o part \o Slice(template, je, i - 1)
            \o domain \o Slice(template, ie, n)

\* C7: the url generated for a tool and a domain, by the card and by the
\* batch, is the template with the first {{DOMAIN}} replaced by the domain and
\* the first {{DOMAIN_NAME}} replaced by domainPart; later occurrences stay.
C7_Substitution ==
    gen.phase = "done" =>
        LET want == ExpectedUrl(gen.tool.urlTemplate, gen.domain,
                                ExpectedPart(gen.domain, gen.tool.urlType))
        IN /\ gen.batch.calls = <<want>>
           /\ gen.card.status # "error" => gen.card.finalUrl = want

\* C7 witness: a domain_name tool whose template holds a token twice was
\* generated, and its card is not in error.
C7_Witness ==
    /\ gen.phase = "done"
    /\ gen.tool.urlType = "domain_name"
    /\ Cardinality(Occurrences(gen.tool.urlTemplate, TOKEN_DOMAIN_NAME)) = 2
    /\ gen.card.status = "idle"
    /\ gen.batch.opened # <<>>

\* C9 as stated: a tool whose template holds neither token ends in the error
\* outcome for every domain and yields no url to open.
C9_NoTokenIsError ==
    ( /\ gen.phase = "done"
      /\ ~Includes(gen.tool.urlTemplate, TOKEN_DOMAIN)
      /\ ~Includes(gen.tool.urlTemplate, TOKEN_DOMAIN_NAME) )
        => (gen.card.status = "error" /\ gen.batch.opened = <<>>)

(***************************************************************************)
(* Claims about the application's state machine                            *)
(***************************************************************************)
\* The step is a Header event: typing, submit or clear.
HeaderStep ==
    lastEvent'.name \in {"handleInputChange", "handleSearchClick", "handleClearInput"}

\* A submit whose sanitized input fails validation sets the inline error and
\* leaves the researched domain and the active tab as they were.
FailingSubmitKeepsDomain ==
    ( /\ lastEvent'.name = "handleSearchClick"
      /\ validateDomain(sanitizeDomain(inputValue)) # null )
        => /\ error' = validateDomain(sanitizeDomain(inputValue))
           /\ lastEvent'.outcome = "rejected"
           /\ researchedDomain' = researchedDomain
           /\ activeTab' = activeTab

\* Whatever a Header event forwards is the empty string or a validated domain,
\* and nothing but a Header event changes the researched domain.
ForwardedIsValidated ==
    /\ (HeaderStep /\ lastEvent'.outcome = "forwarded")
         => (researchedDomain' = <<>> \/ validateDomain(researchedDomain') = null)
    /\ researchedDomain' # researchedDomain
         => (HeaderStep /\ lastEvent'.outcome = "forwarded")

\* C3: the researched domain is always the empty string or a string that
\* validateDomain accepts; a failing submit sets the error and changes neither
\* the researched domain nor the active tab; the only unvalidated value that
\* is forwarded is the empty string.
C3_ResearchedDomainValidated ==
    /\ [](researchedDomain = <<>> \/ validateDomain(researchedDomain) = null)
    /\ [][FailingSubmitKeepsDomain /\ ForwardedIsValidated]_vars

\* C3 witness: a submit was rejected while a domain was researched under a
\* tab other than All, and the error is shown.
C3_Witness ==
    /\ lastEvent = Event("handleSearchClick", "", "rejected")
    /\ researchedDomain # <<>>
    /\ activeTab # "All"
    /\ error # NoError

\* The effect of card id ran in this step: the card was mounted, or its
\* domain changed while it stayed mounted.
EffectRan(id) ==
    /\ cards'[id].mounted
    /\ \/ ~cards[id].mounted
       \/ researchedDomain' # researchedDomain
       \/ activeTab' # activeTab

\* The substituted string of tool id for the domain is no absolute URL.
Malformed(id, domain) == ~URLParse(cardUrl(ToolOf(id), domain)).ok

\* C8: when the substituted string of a tool is no well-formed absolute URL,
\* the effect leaves the card with status 'error' and link '#'; a click on a
\* card whose status is 'error' does not navigate, does not enter 'loading'
\* and does not change the selection.
C8_ErrorOutcome ==
    [][\A id \in ToolIds :
          /\ (EffectRan(id) /\ Malformed(id, researchedDomain'))
               => (cards'[id].status = "error" /\ cards'[id].finalUrl = HASH)
          /\ (lastEvent' = Event("handleCardClick", id, lastEvent'.outcome)
                /\ cards[id].status = "error")
               => /\ lastEvent'.outcome = "prevented"
                  /\ cards' = cards
                  /\ selectedTools' = selectedTools]_vars

\* C8 witness: in multi-open mode a card in the error state was clicked and
\* the click was swallowed.
C8_Witness ==
    /\ lastEvent.name = "handleCardClick"
    /\ lastEvent.outcome = "prevented"
    /\ isMultiOpen
    /\ cards[lastEvent.tool].status = "error"
    /\ cards[lastEvent.tool].finalUrl = HASH
    /\ Malformed(lastEvent.tool, researchedDomain)

\* Processing of the tool fails: its id is not in the catalog, or window.open
\* throws on its url.
FailsInBatch(id, domain) ==
    \/ id \notin ToolIds
    \/ windowOpenThrows(batchUrl(ToolOf(id), domain))

FailingPositions(selected, domain) ==
    {k \in 1..Len(selected) : FailsInBatch(selected[k], domain)}

\* C10: Open Selected processes every tool of the selected list in order,
\* whatever fails before it; a tool produces an open exactly when its
\* processing does not fail, so a list of N tools with one failing tool
\* produces N - 1 opens.
C10_FailuresIndependent ==
    lastEvent.name = "handleOpenSelected" =>
        LET failing == FailingPositions(selectedTools, researchedDomain)
        IN /\ batch.visited = selectedTools
           /\ Len(batch.opened) = Len(selectedTools) - Cardinality(failing)
           /\ Cardinality(failing) = 1 => Len(batch.opened) = Len(selectedTools) - 1

\* C10 witness: three tools were selected, the first of them failed, and the
\* two after it were opened.
C10_Witness ==
    /\ lastEvent.name = "handleOpenSelected"
    /\ Len(selectedTools) = 3
    /\ FailingPositions(selectedTools, researchedDomain) = {1}
    /\ Len(batch.opened) = 2
    /\ batch.logged = <<selectedTools[1]>>

\* C11 as stated: Open Selected never hands window.open a string that is no
\* well-formed absolute URL: a selected tool whose generation fails is skipped
\* before any request is made for it.
C11_OnlyValidUrlsRequested ==
    lastEvent.name = "handleOpenSelected" =>
        \A k \in 1..Len(batch.calls) : URLParse(batch.calls[k]).ok

\* The urls of the selected tools for the domain, in the order of the list.
ExpectedCalls(selected, domain) ==
    [k \in 1..Len(selected) |-> batchUrl(ToolOf(selected[k]), domain)]

\* C12: one Open Selected issues its window.open requests in the order of the
\* selected list, all for the domain researched when the button was clicked,
\* within the one step of the click handler: the step changes neither the
\* selection, the domain, the tab, the mode nor any card, so no timer and no
\* other event falls between the first and the last request.
C12_BatchInOrder ==
    [][lastEvent'.name = "handleOpenSelected" =>
          /\ batch'.calls = ExpectedCalls(selectedTools, researchedDomain)
          /\ batch'.visited = selectedTools
          /\ UNCHANGED <<selectedTools, researchedDomain, activeTab, isMultiOpen, cards,
                         inputValue, error, route>>]_vars

\* C12 witness: three tools were opened in an order other than the catalog's
\* while the loading timer of a card was pending.
C12_Witness ==
    /\ lastEvent.name = "handleOpenSelected"
    /\ Len(batch.calls) = 3
    /\ selectedTools # IdsOf(TOOLS)
    /\ \E id \in ToolIds : cards[id].timers > 0

\* A value that is a list of ids of the catalog.
IsIdList(value) ==
    /\ value.type = "array"
    /\ \A k \in 1..Len(value.v) :
          value.v[k].type = "string" /\ \E id \in ToolIds : value.v[k].v = IdText(id)

\* The stored favorites item is the JSON text of a list of tool ids.
StoredIdList(item) ==
    /\ item.type = "string"
    /\ LET listed(parsed) == ~parsed.threw /\ IsIdList(parsed.value)
       IN listed(JSONParse(item.v))

KnownTheme(item) == item.type = "string" /\ item.v \in {T_light, T_dark}

\* C13, favorites: a stored item that is missing, is not JSON, or is JSON
\* other than a list of tool ids leaves the favorites the empty list.
C13_FavoritesEmpty ==
    boot.phase \in {"mounted", "rendered"} /\ ~StoredIdList(boot.storedFavorites) =>
        boot.favorites.type = "array" /\ Len(boot.favorites.v) = 0
\* C13, rendering: no render of the dashboard fails.
C13_NoCrash == boot.phase = "rendered" => ~boot.view.hasError
\* C13, theme: a stored theme that is missing or is no known theme name
\* leaves the theme the system prefers.
C13_ThemeDefault ==
    boot.phase = "mounted" /\ ~KnownTheme(boot.storedTheme) =>
        boot.theme = IF boot.prefersDark THEN T_dark ELSE T_light

\* C13 as stated: corrupt or absent persisted state is never fatal and falls
\* back to the default, for the favorites, the rendering and the theme.
C13_CorruptStateFallsBack == C13_FavoritesEmpty /\ C13_NoCrash /\ C13_ThemeDefault

\* What the load effect does guarantee: an absent item, an empty item and a
\* text that is not JSON leave the favorites the empty list.
C13_Unparsable ==
    boot.phase \in {"mounted", "rendered"}
    /\ (~Truthy(boot.storedFavorites) \/ JSONParse(boot.storedFavorites.v).threw) =>
        boot.favorites.type = "array" /\ Len(boot.favorites.v) = 0

\* C14 as stated: every generation that ends in the error outcome logs a
\* diagnostic for the tool, in the card's effect as in the batch.
C14_EveryFailureLogged ==
    /\ gen.phase \in {"card", "done"} /\ gen.card.status = "error" => gen.card.logged # <<>>
    /\ gen.phase = "done" /\ gen.batch.opened = <<>> => gen.batch.logged = <<gen.tool.id>>

\* The batch half of C14 alone: a tool Open Selected could not open is logged.
C14_BatchFailureLogged ==
    gen.phase = "done" /\ gen.batch.opened = <<>> => gen.batch.logged = <<gen.tool.id>>

\* C15 as stated: a card whose generation fails under the current domain has
\* status 'error' for as long as the domain and the tool stay, whatever else
\* happens, so that no card is 'idle' with the link target '#'.
C15_ErrorIsStable ==
    \A id \in ToolIds :
        /\ cards[id].mounted /\ Malformed(id, researchedDomain) => cards[id].status = "error"
        /\ ~(cards[id].mounted /\ cards[id].status = "idle" /\ cards[id].finalUrl = HASH)

\* C16: a click that navigates (no error, no multi-open mode, a generated
\* url) leaves the card 'loading'; a card becomes 'loading' by no other event;
\* the timer's callback leaves the card 'idle'; and under fair timers every
\* card that is 'loading' leaves that status.
C16_LoadingEntered ==
    \A id \in ToolIds :
        /\ lastEvent' = Event("handleCardClick", id, "navigated") =>
              /\ ~isMultiOpen /\ cards[id].status # "error"
              /\ cards[id].finalUrl \notin {<<>>, HASH}
              /\ cards'[id].status = "loading"
        /\ (cards'[id].status = "loading" /\ cards[id].status # "loading") =>
              lastEvent' = Event("handleCardClick", id, "navigated")
        /\ lastEvent' = Event("setTimeout", id, "") => cards'[id].status = "idle"
C16_Loading ==
    /\ [][C16_LoadingEntered]_vars
    /\ \A id \in ToolIds : (cards[id].status = "loading") ~> (cards[id].status # "loading")

\* C16 witness: the timer of a card has fired and left the card 'idle' with
\* its link, in multi-open mode, after the mode was switched while the card
\* was 'loading'.
C16_Witness ==
    /\ lastEvent.name = "setTimeout"
    /\ isMultiOpen
    /\ cards[lastEvent.tool].status = "idle"
    /\ cards[lastEvent.tool].finalUrl \notin {<<>>, HASH}

\* C17 as stated: no tool whose card is in the 'error' state is a member of
\* the selection.
C17_NoErrorToolSelected ==
    \A id \in ToolIds :
        cards[id].mounted /\ cards[id].status = "error" => id \notin Range(selectedTools)

\* What the card-level guards do give: a click or a checkbox change on a card
\* in 'error' never adds the tool to the selection.
C17_CardGuards ==
    [][\A id \in ToolIds :
          (/\ lastEvent'.name \in {"handleCardClick", "handleCheckboxChange"}
           /\ lastEvent'.tool = id
           /\ cards[id].status = "error") => selectedTools' = selectedTools]_vars

\* C18: whenever multi-open mode is off the selection is empty, and no step
\* taken while the mode is off and stays off adds a tool to the selection.
C18_OffMeansEmpty == ~isMultiOpen => selectedTools = <<>>

\* C18 witness: the mode was switched off with tools selected, on a tab other
\* than All with a favorite starred, and the selection is empty.
C18_Witness ==
    /\ lastEvent.name = "handleToggleMultiOpen"
    /\ ~isMultiOpen
    /\ selectedTools = <<>>
    /\ favorites # <<>>
    /\ activeTab # "All"
    /\ \E id \in ToolIds : cards[id].mounted

NoDuplicates(list) == \A i, j \in 1..Len(list) : i # j => list[i] # list[j]

\* C19: the selected list never holds a tool id twice, so one Open Selected
\* makes at most one request per tool; and toggling a tool twice gives back
\* the set of selected ids.
C19_NoDuplicateSelection ==
    /\ NoDuplicates(selectedTools)
    /\ lastEvent.name = "handleOpenSelected" =>
          /\ NoDuplicates(batch.visited)
          /\ Len(batch.calls) = Cardinality(Range(selectedTools))
    /\ \A id \in ToolIds :
          Range(handleSelectTool(handleSelectTool(selectedTools, id), id)) = Range(selectedTools)

\* C19 witness: Select All ran on a view of which a later tool was already
\* selected, and every tool is selected once.
C19_Witness ==
    /\ lastEvent.name = "handleToggleSelectAll"
    /\ Len(selectedTools) = Len(TOOLS)
    /\ selectedTools # IdsOf(TOOLS)

\* C20: the Select All button changes the selection of the tools of the
\* current view only.  It deselects exactly when the view is not empty and
\* all its tools are selected: then no tool of the view is selected and the
\* selected tools of other views are as before.  Otherwise every tool of the
\* view is selected, nothing outside the view is added, and the tools
\* selected before are still selected in their previous order.
C20_ViewOnly ==
    [][lastEvent'.name = "handleToggleSelectAll" =>
          LET view == Range(IdsOf(filteredTools(activeTab, favorites)))
              before == Range(selectedTools)
              Outside(id) == id \notin view
              Before(id) == id \in before
          IN IF view # {} /\ view \subseteq before
             THEN /\ Range(selectedTools') \cap view = {}
                  /\ selectedTools' = SelectSeq(selectedTools, Outside)
             ELSE /\ view \subseteq Range(selectedTools')
                  /\ Range(selectedTools') = before \cup view
                  /\ SelectSeq(selectedTools', Before) = selectedTools]_vars

\* C20 witness: Deselect All ran on a tab other than All and left the
\* selected tools of other tabs selected.
C20_Witness ==
    /\ lastEvent.name = "handleToggleSelectAll"
    /\ activeTab # "All"
    /\ selectedTools # <<>>
    /\ Range(selectedTools) \cap Range(IdsOf(filteredTools(activeTab, favorites))) = {}

\* The two generators taken alone: where the card's effect does not end in
\* error, its link is the string the batch hands to window.open.
C21_GeneratorsAgree ==
    gen.phase = "done" /\ gen.card.status # "error" => gen.batch.calls = <<gen.card.finalUrl>>

\* Open Selected never runs without a researched domain.
C21_DomainNotEmpty == lastEvent.name = "handleOpenSelected" => researchedDomain # <<>>

\* C21 as stated: Open Selected never runs with an empty researched domain,
\* and the string it hands to window.open for a tool is the link target of
\* the tool's card whenever that card is not in the error state.
C21_CardAndBatchAgree ==
    lastEvent.name = "handleOpenSelected" =>
        /\ researchedDomain # <<>>
        /\ \A k \in 1..Len(batch.visited) :
              LET id == batch.visited[k]
              IN cards[id].mounted /\ cards[id].status # "error" =>
                    batch.calls[k] = cards[id].finalUrl

====
